---- MODULE Spec2Model ----
(***************************************************************************)
(* The shopping-cart engine of the neatify backend:                        *)
(*   backend/app/services/cart_service.py  (CartService)                   *)
(*   backend/app/routers/cart.py           (the HTTP handlers)             *)
(*                                                                         *)
(* The database is the shared state (carts, items, the catalog).  Every    *)
(* HTTP request runs a handler with its own SQLAlchemy session; a step of  *)
(* a request is one database phase of the handler (the SELECTs of a read   *)
(* phase, or one commit) together with the Python that follows it up to    *)
(* the next database phase.  Requests interleave between steps.            *)
(*                                                                         *)
(* Money is kept in whole currency units; the catalog prices are multiples *)
(* of 100, so that Decimal("0.18") * subtotal is a whole number and the    *)
(* integer arithmetic below is exact.                                      *)
(***************************************************************************)
EXTENDS Integers, Sequences, FiniteSets, TLC

VARIABLES carts, items, nextItem, product, varStock, now, req, started, changes, scope

vars == <<carts, items, nextItem, product, varStock, now, req, started, changes, scope>>

db == <<carts, items>>

(***************************** bounds **************************************)
MaxCarts == 3
MaxItems == 3
MaxTicks == 2
MaxOpsItems == 2
MaxOpsCatalog == 2
MaxOpsLife == 2
MaxChanges == 2
MaxOpsEdit == 2
MaxOpsStore == 2
MaxOpsRace == 2
MaxOpsCheckout == 2
MaxOpsSweep == 2

(************************* program constants *******************************)
MAX_QUANTITY_PER_ITEM == 10
CART_EXPIRATION_HOURS == 72
TAX_RATE_PERCENT == 18
FREE_SHIPPING_THRESHOLD == 50000
SHIPPING_COST == 5000

(* Optional[int] = None and Optional[str] = None; both are falsy in the    *)
(* handlers' "if user_id:" / "if session_id:" tests, as 0 and "" are.      *)
NoUser == 0
NoSession == ""
NoId == 0

ACTIVE == "active"
EXPIRED == "expired"
CONVERTED == "converted"

(**************************** input domains ********************************)
Procs == {1, 2}
TickHours == 48
Users == {1}
Sessions == {"s1"}
Products == {1}
\* variation 1 belongs to product 1; variation 2 belongs to no product here
VariationIds == {1, 2}
VariationsOf(pid) == IF pid = 1 THEN {1} ELSE {}
QtyArgs == {0, 5, 6}
Stocks == {5, 20}
Prices == {0, 5000}

(***************************** helpers *************************************)
CartIds == 1..Len(carts)

\* a new cart built without set_expiration: the variant ExpiredCartReplaced
\* is tested against
NewCartUnset(uid, sid, exp) ==
    [user_id |-> uid, session_id |-> IF uid # NoUser THEN NoSession ELSE sid,
     status |-> ACTIVE, expires_at |-> 0,
     subtotal |-> 0, tax_amount |-> 0, discount_amount |-> 0, total |-> 0]

\* Cart(...) as the service constructs it; the aggregates start at zero
NewCart(uid, sid, exp) ==
    [user_id |-> uid, session_id |-> IF uid # NoUser THEN NoSession ELSE sid,
     status |-> ACTIVE, expires_at |-> exp,
     subtotal |-> 0, tax_amount |-> 0, discount_amount |-> 0, total |-> 0]

\* Cart.set_expiration / Cart.refresh_expiration: expires_at = utcnow() + hours
ExpirationAt(t, hours) == t + hours

\* Cart.is_expired: utcnow() > expires_at
IsExpired(c, t) == t > c.expires_at

\* a lookup that knows session carts only: the variant
\* RepeatedCallSameCart is tested against
ActiveCartsForSession(uid, sid) ==
    IF uid = NoUser /\ sid # NoSession
    THEN {c \in CartIds : carts[c].session_id = sid /\ carts[c].status = ACTIVE}
    ELSE {}

\* db.query(Cart).filter(owner, status == ACTIVE): the rows .first() picks from
ActiveCartsFor(uid, sid) ==
    IF uid # NoUser
    THEN {c \in CartIds : carts[c].user_id = uid /\ carts[c].status = ACTIVE}
    ELSE IF sid # NoSession
    THEN {c \in CartIds : carts[c].session_id = sid /\ carts[c].status = ACTIVE}
    ELSE {}

\* cart.items: the CartItem rows of a cart
CartItems(cid) == {i \in items : i.cart_id = cid}

ItemById(id) == {i \in items : i.id = id}

\* price = item.unit_price or item.product.price ; line = price * quantity
LineAmount(i) ==
    (IF i.unit_price # 0 THEN i.unit_price ELSE product.price) * i.quantity

\* the loop "for item in cart.items: subtotal += ..."
RECURSIVE SumLines(_)
SumLines(S) ==
    IF S = {} THEN 0
    ELSE LET x == CHOOSE y \in S : TRUE IN LineAmount(x) + SumLines(S \ {x})

\* subtotal * Decimal("0.18")
TaxOf(subtotal) == (subtotal * TAX_RATE_PERCENT) \div 100

\* a totals recompute that leaves shipping out of the total: the variant
\* PersistedTotalIncludesShipping is tested against
ShippingForNone(subtotal) == 0

\* _update_cart_totals: shipping applied to the total
ShippingFor(subtotal) ==
    IF subtotal < FREE_SHIPPING_THRESHOLD /\ subtotal > 0 THEN SHIPPING_COST ELSE 0

\* get_cart_summary: shipping_estimate
ShippingEstimate(subtotal) ==
    IF subtotal # 0 /\ subtotal < FREE_SHIPPING_THRESHOLD /\ subtotal > 0
    THEN SHIPPING_COST ELSE 0

\* _update_cart_totals up to the assignment of the three aggregates
ComputeTotals(cid) ==
    LET subtotal == SumLines(CartItems(cid))
        tax      == TaxOf(subtotal)
        shipping == ShippingFor(subtotal)
        discount == carts[cid].discount_amount
    IN [subtotal |-> subtotal, tax_amount |-> tax,
        total |-> subtotal + tax + shipping - discount]

\* add_item without its cap check: the variant QuantityLimitPersistsNothing
\* is tested against
AddItemCheckNoCap(existingQty, quantity, stock) ==
    IF existingQty + quantity > stock THEN "InsufficientStock" ELSE "ok"

\* add_item refusing a quantity equal to the stock: the variant
\* StockDecidesAdd is tested against
AddItemCheckStrictStock(existingQty, quantity, stock) ==
    LET new_quantity == existingQty + quantity
    IN IF new_quantity > MAX_QUANTITY_PER_ITEM THEN "QuantityLimitExceeded"
       ELSE IF new_quantity >= stock THEN "InsufficientStock"
       ELSE "ok"

\* add_item with its stock check before its cap check: the variant
\* AddChecksInOrder is tested against
AddItemCheckStockFirst(existingQty, quantity, stock) ==
    LET new_quantity == existingQty + quantity
    IN IF new_quantity > stock THEN "InsufficientStock"
       ELSE IF new_quantity > MAX_QUANTITY_PER_ITEM THEN "QuantityLimitExceeded"
       ELSE "ok"

\* add_item: new_quantity, then the cap check, then the stock check
AddItemCheck(existingQty, quantity, stock) ==
    LET new_quantity == existingQty + quantity
    IN IF new_quantity > MAX_QUANTITY_PER_ITEM THEN "QuantityLimitExceeded"
       ELSE IF new_quantity > stock THEN "InsufficientStock"
       ELSE "ok"

\* update_item_quantity without its cap check: the variant
\* UpdateIsAbsoluteAndOwned is tested against
UpdateCheckNoCap(quantity, stock) ==
    IF quantity > stock THEN "InsufficientStock" ELSE "ok"

\* update_item_quantity: the cap check, then the stock check, on the new value
UpdateCheck(quantity, stock) ==
    IF quantity > MAX_QUANTITY_PER_ITEM THEN "QuantityLimitExceeded"
    ELSE IF quantity > stock THEN "InsufficientStock"
    ELSE "ok"

\* the quantity the ACTIVE carts hold of a variation (of the product itself
\* for NoId)
RECURSIVE HeldQuantity(_)
HeldQuantity(S) ==
    IF S = {} THEN 0
    ELSE LET x == CHOOSE y \in S : TRUE IN x.quantity + HeldQuantity(S \ {x})

\* a stock check that counts what the carts already hold as reserved: the
\* variant StockCheckIgnoresOtherCarts is tested against
AvailableStockReserved(vid) ==
    (IF vid # NoId THEN varStock ELSE product.stock)
      - HeldQuantity({i \in items : i.variation_id = vid
                                     /\ carts[i.cart_id].status = ACTIVE})

\* available_stock: the variation's stock when the item has a variation
AvailableStock(vid) == IF vid # NoId THEN varStock ELSE product.stock

(************************ requests (handler state) *************************)
NoTotals == [subtotal |-> 0, tax_amount |-> 0, total |-> 0]

\* the aggregates of a cart row as a session has them loaded
Loaded(cid) == [subtotal |-> carts[cid].subtotal, tax_amount |-> carts[cid].tax_amount,
                total |-> carts[cid].total]

\* the unit of work writes an attribute only when the value assigned to it
\* differs from the value the session has loaded
Flushed(stored, loaded, assigned) == IF assigned # loaded THEN assigned ELSE stored

\* an entry of the issue list of validate_cart_for_checkout: what is wrong,
\* and with which item (none for the empty cart)
Issue(kind, id) == [kind |-> kind, item |-> id]

\* a handler that answers None instead of a report
NoReport ==
    [returned |-> FALSE, user_type |-> "guest",
     has_user_cart |-> FALSE, has_session_cart |-> FALSE,
     user_cart_items |-> 0, session_cart_items |-> 0,
     can_merge |-> FALSE, recommend_merge |-> FALSE]

Idle ==
    [op |-> "none", pc |-> "idle", res |-> "none", fresh |-> FALSE,
     uid |-> NoUser, sid |-> NoSession,
     pid |-> NoId, vid |-> NoId, qty |-> 0, item |-> NoId, prods |-> {},
     cart |-> NoId, scart |-> NoId, found |-> NoId,
     exist |-> NoId, newq |-> 0, price |-> 0, hours |-> 0,
     todo |-> <<>>, cached |-> FALSE, tot |-> NoTotals, old |-> NoTotals, sweep |-> {},
     ship |-> 0, count |-> 0,
     valid |-> FALSE, issues |-> <<>>, report |-> NoReport]

\* the requests being served; under scope.held the answer of a finished
\* request stays with its caller until Return, and its worker is not busy
InFlight == {p \in Procs : req[p].pc # "idle" /\ ~(scope.held /\ req[p].pc = "done")}

\* A request that has arrived and not yet touched the database, and one that
\* has finished and not yet answered, are seen by nobody else: they take their
\* next step before anything else happens.
Urgent(q) == req[q].fresh \/ (req[q].pc = "done" /\ ~scope.held)

At(p, label) == req[p].pc = label /\ \A q \in Procs \ {p} : ~Urgent(q)

Quiet == \A q \in Procs : ~Urgent(q)

\* which worker serves a request is immaterial: the first idle one does
CanStart(p) ==
    /\ req[p].pc = "idle"
    /\ Quiet
    /\ \A q \in Procs : req[q].pc = "idle" => p <= q
    /\ started < scope.ops
    /\ Cardinality(InFlight) < scope.conc

\* the handler returns: the session is closed and its objects are dropped
Finish(r, outcome) ==
    [Idle EXCEPT !.op = r.op, !.pc = "done", !.res = outcome, !.uid = r.uid, !.sid = r.sid,
                 !.cart = r.cart, !.pid = r.pid, !.vid = r.vid, !.qty = r.qty, !.item = r.item,
                 !.issues = IF outcome = "empty_cart" THEN <<Issue("empty", NoId)>>
                            ELSE <<>>]

Set(p, r) == req' = [req EXCEPT ![p] = [r EXCEPT !.fresh = FALSE]]

Begin(p, r) ==
    /\ CanStart(p)
    /\ started' = started + 1
    /\ req' = [req EXCEPT ![p] = [r EXCEPT !.fresh = TRUE]]
    /\ UNCHANGED <<carts, items, nextItem, product, varStock, now, changes, scope>>

\* the owner a handler is called for: the authenticated user, or a session id
UserOwners == {[uid |-> u, sid |-> NoSession] : u \in Users}
SessionOwners == {[uid |-> NoUser, sid |-> s] : s \in Sessions}
Owners == scope.owners
OwnerUsers == {o.uid : o \in Owners} \ {NoUser}
OwnerSessions == {o.sid : o \in Owners} \ {NoSession}

(******************* get_or_create_cart (cart_service.py 40-100) ***********)
\* what the handler does once get_or_create_cart has returned
AfterGoc(r) ==
    CASE r.op = "add"     -> "add_read"
      [] r.op = "merge"   -> "xfer_load"
      [] r.op = "convert" -> "xfer_load"
      [] r.op = "validate" -> "val_read"
      [] OTHER            -> "done"

Returned(r, nextpc) ==
    IF nextpc = "done" THEN Finish(r, "ok") ELSE [r EXCEPT !.pc = nextpc]

\* merge and convert call get_or_create_cart(db, user_id=...) only
GocSid(r) == IF r.op \in {"merge", "convert"} THEN NoSession ELSE r.sid

\* lines 50-69 and the branch taken at 69/82/95
GocQuery(p) ==
    LET r == req[p]
        found == ActiveCartsFor(r.uid, GocSid(r))
    IN /\ At(p, "goc_query")
       /\ \/ /\ found = {}
             /\ Set(p, [r EXCEPT !.pc = "goc_create"])
          \/ \E c \in found :
                IF IsExpired(carts[c], now)
                THEN Set(p, [r EXCEPT !.pc = "goc_expire", !.found = c])
                ELSE Set(p, [r EXCEPT !.pc = "goc_refresh", !.found = c])
       /\ UNCHANGED <<carts, items, nextItem, product, varStock, now, started, changes, scope>>

\* lines 71-79 and 86-94: db.add(cart); db.commit()
GocCreate(p) ==
    LET r == req[p]
    IN /\ At(p, "goc_create")
       /\ Len(carts) < scope.carts
       /\ carts' = Append(carts, NewCart(r.uid, GocSid(r),
                                         ExpirationAt(now, CART_EXPIRATION_HOURS)))
       /\ Set(p, Returned([r EXCEPT !.cart = Len(carts) + 1, !.found = NoId],
                          AfterGoc(r)))
       /\ UNCHANGED <<items, nextItem, product, varStock, now, started, changes, scope>>

\* lines 82-84: cart.status = EXPIRED; db.commit(); then the new Cart is built
GocExpire(p) ==
    LET r == req[p]
    IN /\ At(p, "goc_expire")
       /\ carts' = [carts EXCEPT ![r.found].status = EXPIRED]
       /\ Set(p, [r EXCEPT !.pc = "goc_create", !.found = NoId])
       /\ UNCHANGED <<items, nextItem, product, varStock, now, started, changes, scope>>

\* lines 96-98: cart.refresh_expiration(72); db.commit()
GocRefresh(p) ==
    LET r == req[p]
    IN /\ At(p, "goc_refresh")
       /\ carts' = [carts EXCEPT
                      ![r.found].expires_at = ExpirationAt(now, CART_EXPIRATION_HOURS)]
       /\ Set(p, Returned([r EXCEPT !.cart = r.found, !.found = NoId],
                          AfterGoc(r)))
       /\ UNCHANGED <<items, nextItem, product, varStock, now, started, changes, scope>>

\* routers/cart.py get_cart / get_session_cart / get_smart_cart
StartGet(p) ==
    \E o \in Owners :
        Begin(p, [Idle EXCEPT !.op = "get", !.pc = "goc_query", !.uid = o.uid, !.sid = o.sid])

\* a loop that lets the CartError of add_item end the request: the variant
\* MergeIsBestEffort is tested against
RaisedAborts(r, outcome) == Finish(r, outcome)

(********************** add_item (cart_service.py 341-433) *****************)
\* a CartError raised by add_item: the handler answers with the error, while
\* merge and convert swallow it and go on with the next item; any other
\* exception (AttributeError, StaleDataError) ends the request with a 500
Raised(r, outcome) ==
    IF r.op \in {"merge", "convert"} /\ outcome # "ServerError"
    THEN [r EXCEPT !.pc = "xfer_next", !.todo = Tail(r.todo),
                   !.exist = NoId, !.newq = 0, !.price = 0]
    ELSE Finish(r, outcome)

\* lines 355-409: the product, the variation, the existing item, the checks
AddRead(p) ==
    LET r == req[p]
        existing == {i \in items : i.cart_id = r.cart /\ i.product_id = r.pid
                                     /\ i.variation_id = r.vid}
        Checked(e, q) ==
            LET res == AddItemCheck(q, r.qty, AvailableStock(r.vid))
            IN IF res = "ok"
               THEN Set(p, [r EXCEPT !.pc = "add_write", !.exist = e,
                                     !.newq = q + r.qty, !.price = product.price])
               ELSE Set(p, Raised(r, res))
    IN /\ At(p, "add_read")
       /\ IF ~(r.pid \in Products /\ product.is_active)
          THEN Set(p, Raised(r, "ProductUnavailable"))
          ELSE IF r.vid # NoId /\ r.vid \notin VariationsOf(r.pid)
          THEN Set(p, Raised(r, "VariationNotFound"))
          ELSE IF r.cart = NoId
          THEN Set(p, Raised(r, "ServerError"))
          ELSE IF existing = {}
          THEN Checked(NoId, 0)
          ELSE \E i \in existing : Checked(i.id, i.quantity)
       /\ UNCHANGED <<carts, items, nextItem, product, varStock, now, started, changes, scope>>

\* lines 411-416 (existing item) and 420-431 (new item): the commit
AddWrite(p) ==
    LET r == req[p]
    IN /\ At(p, "add_write")
       /\ IF r.exist # NoId
          THEN IF ItemById(r.exist) # {}
               THEN /\ items' = {IF i.id = r.exist
                                 THEN [i EXCEPT !.quantity = r.newq, !.unit_price = r.price]
                                 ELSE i : i \in items}
                    /\ Set(p, [r EXCEPT !.pc = "tot_read", !.cached = FALSE])
                    /\ UNCHANGED nextItem
               ELSE /\ Set(p, Raised(r, "ServerError"))
                    /\ UNCHANGED <<items, nextItem>>
          ELSE /\ nextItem <= scope.items
               /\ items' = items \cup {[id |-> nextItem, cart_id |-> r.cart,
                                        product_id |-> r.pid, variation_id |-> r.vid,
                                        quantity |-> r.qty, unit_price |-> r.price]}
               /\ nextItem' = nextItem + 1
               /\ Set(p, [r EXCEPT !.pc = "tot_read", !.cached = FALSE])
       /\ UNCHANGED <<carts, product, varStock, now, started, changes, scope>>

(***************** _update_cart_totals (cart_service.py 511-535) ***********)
\* lines 514-530: cart.items is loaded and the aggregates are computed
TotalsRead(p) ==
    LET r == req[p]
    IN /\ At(p, "tot_read")
       /\ Set(p, [r EXCEPT !.pc = "tot_write", !.tot = ComputeTotals(r.cart),
                           !.old = Loaded(r.cart),
                           !.exist = NoId, !.newq = 0, !.price = 0])
       /\ UNCHANGED <<carts, items, nextItem, product, varStock, now, started, changes, scope>>

\* lines 532-535: the three aggregates are assigned and committed
TotalsWrite(p) ==
    LET r == req[p]
    IN /\ At(p, "tot_write")
       /\ carts' = [carts EXCEPT
                      ![r.cart].subtotal = Flushed(@, r.old.subtotal, r.tot.subtotal),
                      ![r.cart].tax_amount = Flushed(@, r.old.tax_amount, r.tot.tax_amount),
                      ![r.cart].total = Flushed(@, r.old.total, r.tot.total)]
       /\ IF r.op \in {"merge", "convert"}
          THEN Set(p, [r EXCEPT !.pc = "xfer_next", !.todo = Tail(r.todo),
                                !.tot = NoTotals, !.old = NoTotals, !.cached = FALSE])
          ELSE IF r.op = "summary"
          THEN Set(p, [r EXCEPT !.pc = "sum_read", !.tot = NoTotals, !.old = NoTotals])
          ELSE Set(p, Finish(r, "ok"))
       /\ UNCHANGED <<items, nextItem, product, varStock, now, started, changes, scope>>

\* routers/cart.py add_to_cart / add_to_session_cart / add_to_smart_cart
StartAdd(p) ==
    \E o \in Owners, pid \in Products, vid \in scope.vids, q \in scope.qtys :
        Begin(p, [Idle EXCEPT !.op = "add", !.pc = "goc_query", !.uid = o.uid,
                              !.sid = o.sid, !.pid = pid, !.vid = vid, !.qty = q])

(************* get_cart (cart_service.py 102-124) and its callers **********)
AfterGetCart(r) ==
    CASE r.op = "update"  -> "upd_read"
      [] r.op = "remove"  -> "rem_read"
      [] r.op = "clear"   -> "clear_write"
      [] r.op = "summary" -> "tot_read"
      [] r.op = "order"   -> "mark_write"
      [] r.op = "guest"   -> "guest_read"
      [] r.op = "validate" -> "val_read"
      [] OTHER            -> "done"

\* the handler's answer when the owner has no ACTIVE cart
NoCart(r) ==
    CASE r.op \in {"update", "remove"} -> "CartNotFound"
      [] r.op = "guest"                -> "no_cart"
      [] r.op = "validate"             -> "empty_cart"
      [] OTHER                         -> "ok"

GetCart(p) ==
    LET r == req[p]
        found == ActiveCartsFor(r.uid, r.sid)
    IN /\ At(p, "get_cart")
       /\ \/ /\ found = {}
             /\ Set(p, Finish(r, NoCart(r)))
          \/ \E c \in found :
                Set(p, [r EXCEPT !.pc = AfterGetCart(r), !.cart = c,
                                 !.old = IF r.op = "clear" THEN Loaded(c) ELSE NoTotals])
       /\ UNCHANGED <<carts, items, nextItem, product, varStock, now, started, changes, scope>>

(***************** update_item_quantity (cart_service.py 435-480) **********)
UpdateRead(p) ==
    LET r == req[p]
        rows == {i \in items : i.id = r.item /\ i.cart_id = r.cart}
    IN /\ At(p, "upd_read")
       /\ IF rows = {}
          THEN Set(p, Finish(r, "ItemNotFound"))
          ELSE \E i \in rows :
                 LET res == UpdateCheck(r.qty, AvailableStock(i.variation_id))
                 IN IF res = "ok"
                    THEN Set(p, [r EXCEPT !.pc = "upd_write", !.price = product.price])
                    ELSE Set(p, Finish(r, res))
       /\ UNCHANGED <<carts, items, nextItem, product, varStock, now, started, changes, scope>>

\* lines 475-478
UpdateWrite(p) ==
    LET r == req[p]
    IN /\ At(p, "upd_write")
       /\ IF ItemById(r.item) # {}
          THEN /\ items' = {IF i.id = r.item
                            THEN [i EXCEPT !.quantity = r.qty, !.unit_price = r.price]
                            ELSE i : i \in items}
               /\ Set(p, [r EXCEPT !.pc = "tot_read"])
          ELSE /\ Set(p, Finish(r, "ServerError"))
               /\ UNCHANGED items
       /\ UNCHANGED <<carts, nextItem, product, varStock, now, started, changes, scope>>

StartUpdate(p) ==
    \E o \in Owners, id \in 1..scope.ids, q \in scope.qtys :
        Begin(p, [Idle EXCEPT !.op = "update", !.pc = "get_cart", !.uid = o.uid,
                              !.sid = o.sid, !.item = id, !.qty = q])

(********************* remove_item (cart_service.py 482-498) ***************)
RemoveRead(p) ==
    LET r == req[p]
        rows == {i \in items : i.id = r.item /\ i.cart_id = r.cart}
    IN /\ At(p, "rem_read")
       /\ IF rows = {}
          THEN Set(p, Finish(r, "ItemNotFound"))
          ELSE Set(p, [r EXCEPT !.pc = "rem_delete"])
       /\ UNCHANGED <<carts, items, nextItem, product, varStock, now, started, changes, scope>>

\* lines 495-496: db.delete(cart_item); db.commit()
RemoveDelete(p) ==
    LET r == req[p]
    IN /\ At(p, "rem_delete")
       /\ items' = items \ ItemById(r.item)
       /\ Set(p, [r EXCEPT !.pc = "tot_read"])
       /\ UNCHANGED <<carts, nextItem, product, varStock, now, started, changes, scope>>

StartRemove(p) ==
    \E o \in Owners, id \in 1..scope.ids :
        Begin(p, [Idle EXCEPT !.op = "remove", !.pc = "get_cart", !.uid = o.uid,
                              !.sid = o.sid, !.item = id])

(********************** clear_cart (cart_service.py 500-509) ***************)
ClearWrite(p) ==
    LET r == req[p]
    IN /\ At(p, "clear_write")
       /\ items' = items \ CartItems(r.cart)
       /\ carts' = [carts EXCEPT
                      ![r.cart].subtotal = Flushed(@, r.old.subtotal, 0),
                      ![r.cart].tax_amount = Flushed(@, r.old.tax_amount, 0),
                      ![r.cart].total = Flushed(@, r.old.total, 0),
                      ![r.cart].discount_amount = 0]
       /\ IF r.op = "convert"
          THEN Set(p, [r EXCEPT !.pc = "goc_query", !.old = NoTotals])
          ELSE Set(p, Finish(r, "ok"))
       /\ UNCHANGED <<nextItem, product, varStock, now, started, changes, scope>>

StartClear(p) ==
    \E o \in Owners :
        Begin(p, [Idle EXCEPT !.op = "clear", !.pc = "get_cart", !.uid = o.uid, !.sid = o.sid])

\* routers/cart.py get_cart_summary: get_cart, then CartService.get_cart_summary
StartSummary(p) ==
    \E u \in OwnerUsers :
        Begin(p, [Idle EXCEPT !.op = "summary", !.pc = "get_cart", !.uid = u])

(******************* get_cart_summary (cart_service.py 537-553) ************)
\* lines 542-553, after _update_cart_totals has committed: the summary is
\* built from the cart's stored aggregates
SummaryRead(p) ==
    LET r == req[p]
    IN /\ At(p, "sum_read")
       /\ Set(p, [Finish(r, "ok") EXCEPT
                    !.ship = ShippingEstimate(carts[r.cart].subtotal),
                    !.tot = [subtotal |-> carts[r.cart].subtotal,
                             tax_amount |-> carts[r.cart].tax_amount,
                             total |-> carts[r.cart].total]])
       /\ UNCHANGED <<carts, items, nextItem, product, varStock, now, started, changes, scope>>

(********* merge_session_cart (cart_service.py 588-632) and *****************)
(********* convert_guest_to_user (routers/cart.py 208-256) *****************)
\* the rows of a cart in id order, as the relationship loads them
RECURSIVE ItemList(_)
ItemList(S) ==
    IF S = {} THEN <<>>
    ELSE LET x == CHOOSE y \in S : \A z \in S : y.id <= z.id
         IN <<x>> \o ItemList(S \ {x})

\* a merge that resolves the user's cart before it looks at the session
\* cart's items: the variant EmptyMergeIsNoOp is tested against
MergeQueryEager(p) ==
    LET r == req[p]
        found == ActiveCartsFor(NoUser, r.sid)
    IN /\ At(p, "merge_query")
       /\ \/ /\ found = {}
             /\ Set(p, Finish(r, "nothing_to_merge"))
          \/ \E c \in found : Set(p, [r EXCEPT !.pc = "goc_query", !.scart = c])
       /\ UNCHANGED <<carts, items, nextItem, product, varStock, now, started, changes, scope>>

\* cart_service.py 599-607
MergeQuery(p) ==
    LET r == req[p]
        found == ActiveCartsFor(NoUser, r.sid)
    IN /\ At(p, "merge_query")
       /\ \/ /\ found = {}
             /\ Set(p, Finish(r, "nothing_to_merge"))
          \/ \E c \in found :
                IF CartItems(c) = {}
                THEN Set(p, Finish(r, "nothing_to_merge"))
                ELSE Set(p, [r EXCEPT !.pc = "goc_query", !.scart = c])
       /\ UNCHANGED <<carts, items, nextItem, product, varStock, now, started, changes, scope>>

\* routers/cart.py 218-223
ConvertQuery(p) ==
    LET r == req[p]
        found == ActiveCartsFor(NoUser, r.sid)
    IN /\ At(p, "conv_query")
       /\ \/ /\ found = {}
             /\ Set(p, Finish(r, "CartNotFound"))
          \/ \E c \in found :
                IF CartItems(c) = {}
                THEN Set(p, Finish(r, "CartNotFound"))
                ELSE Set(p, [r EXCEPT !.pc = "conv_user", !.scart = c,
                                      !.todo = ItemList(CartItems(c)), !.cached = TRUE])
       /\ UNCHANGED <<carts, items, nextItem, product, varStock, now, started, changes, scope>>

\* routers/cart.py 226-231: the user's cart; it is cleared and resolved again
\* when there is one, and stays None when there is none
ConvertUser(p) ==
    LET r == req[p]
        found == ActiveCartsFor(r.uid, NoSession)
    IN /\ At(p, "conv_user")
       /\ \/ /\ found = {}
             /\ Set(p, [r EXCEPT !.pc = "xfer_next", !.cart = NoId])
          \/ \E c \in found :
                Set(p, [r EXCEPT !.pc = "clear_write", !.cart = c, !.old = Loaded(c)])
       /\ UNCHANGED <<carts, items, nextItem, product, varStock, now, started, changes, scope>>

\* "for item in session_cart.items": the relationship, expired by the commits
\* of get_or_create_cart, is loaded again when the loop starts
XferLoad(p) ==
    LET r == req[p]
    IN /\ At(p, "xfer_load")
       /\ Set(p, [r EXCEPT !.pc = "xfer_next", !.todo = ItemList(CartItems(r.scart)),
                           !.cached = TRUE])
       /\ UNCHANGED <<carts, items, nextItem, product, varStock, now, started, changes, scope>>

\* one turn of the loop: the item's attributes are read (from the database
\* again when a commit of this session has expired them) and add_item is called
XferNext(p) ==
    LET r == req[p]
    IN /\ At(p, "xfer_next")
       /\ IF r.todo = <<>>
          THEN Set(p, [r EXCEPT !.pc = "xfer_mark", !.pid = NoId, !.vid = NoId, !.qty = 0])
          ELSE LET h == Head(r.todo)
                   row == IF r.cached THEN {h} ELSE ItemById(h.id)
               IN IF row = {}
                  THEN Set(p, Finish(r, "ServerError"))
                  ELSE \E i \in row :
                         Set(p, [r EXCEPT !.pc = "add_read", !.pid = i.product_id,
                                          !.vid = i.variation_id, !.qty = i.quantity])
       /\ UNCHANGED <<carts, items, nextItem, product, varStock, now, started, changes, scope>>

\* cart_service.py 628-630 and routers/cart.py 249-255; the answer of convert
\* reads user_cart.item_count, which fails after the commit when user_cart
\* is None
XferMark(p) ==
    LET r == req[p]
    IN /\ At(p, "xfer_mark")
       /\ carts' = [carts EXCEPT ![r.scart].status = CONVERTED]
       /\ Set(p, Finish(r, IF r.op = "convert" /\ r.cart = NoId
                           THEN "ServerError" ELSE "ok"))
       /\ UNCHANGED <<items, nextItem, product, varStock, now, started, changes, scope>>

StartMerge(p) ==
    \E u \in OwnerUsers, s \in OwnerSessions :
        Begin(p, [Idle EXCEPT !.op = "merge", !.pc = "merge_query", !.uid = u, !.sid = s])

StartConvert(p) ==
    \E u \in OwnerUsers, s \in OwnerSessions :
        Begin(p, [Idle EXCEPT !.op = "convert", !.pc = "conv_query", !.uid = u, !.sid = s])

(********* validate_cart_for_checkout (cart_service.py 555-586) *************)
\* lines 568-584: the issue one item contributes, if any; "continue" after
\* the availability issue skips the stock check
ItemIssues(i) ==
    IF ~(i.product_id \in Products /\ product.is_active)
    THEN <<Issue("unavailable", i.id)>>
    ELSE LET available_stock ==
                 IF i.variation_id # NoId /\ i.variation_id \in VariationsOf(i.product_id)
                 THEN varStock ELSE product.stock
         IN IF i.quantity > available_stock THEN <<Issue("stock", i.id)>> ELSE <<>>

\* a loop that stops at the first issue: the variant EveryProblemItemReported
\* is tested against
RECURSIVE CollectFirstIssue(_)
CollectFirstIssue(list) ==
    IF list = <<>> THEN <<>>
    ELSE IF ItemIssues(Head(list)) # <<>> THEN ItemIssues(Head(list))
    ELSE CollectFirstIssue(Tail(list))

\* line 567: "for item in cart.items", appending to issues
RECURSIVE CollectIssues(_)
CollectIssues(list) ==
    IF list = <<>> THEN <<>>
    ELSE ItemIssues(Head(list)) \o CollectIssues(Tail(list))

\* a verdict that ignores the issue list: the variant ValidationIsAdvisory is
\* tested against
IsValidAlways(issues) == TRUE

\* line 586: len(issues) == 0
IsValid(issues) == Len(issues) = 0

\* lines 561-586: (is_valid, issues)
ValidateCart(cid) ==
    IF CartItems(cid) = {}
    THEN [valid |-> FALSE, issues |-> <<Issue("empty", NoId)>>]
    ELSE LET issues == CollectIssues(ItemList(CartItems(cid)))
         IN [valid |-> IsValid(issues), issues |-> issues]

\* routers/cart.py 419-424 (the user's cart: an empty one is answered by the
\* router itself) and 457 (the session's cart)
ValidateRead(p) ==
    LET r == req[p]
        v == ValidateCart(r.cart)
    IN /\ At(p, "val_read")
       /\ IF r.uid # NoUser /\ CartItems(r.cart) = {}
          THEN Set(p, Finish(r, "empty_cart"))
          ELSE Set(p, [Finish(r, "validated") EXCEPT !.valid = v.valid,
                                                     !.issues = v.issues])
       /\ UNCHANGED <<carts, items, nextItem, product, varStock, now, started, changes, scope>>

\* routers/cart.py validate_cart (get_cart of the user) and get_session_cart
\* (get_or_create_cart of the session)
StartValidate(p) ==
    \E o \in Owners :
        Begin(p, [Idle EXCEPT !.op = "validate",
                              !.pc = IF o.uid # NoUser THEN "get_cart" ELSE "goc_query",
                              !.uid = o.uid, !.sid = o.sid])

(********** detect_user_cart_status (cart_service.py 143-182) **************)
\* lines 154-181: status_info as the body fills it in, uc and sc being the
\* carts get_cart returned (NoId for None, and for a lookup not made)
StatusInfo(uid, uc, sc) ==
    LET hasUser == uc # NoId /\ CartItems(uc) # {}
        hasSession == sc # NoId /\ CartItems(sc) # {}
        sessionItems == IF hasSession THEN Cardinality(CartItems(sc)) ELSE 0
    IN [returned |-> TRUE,
        user_type |-> IF uid # NoUser THEN "registered" ELSE "guest",
        has_user_cart |-> hasUser, has_session_cart |-> hasSession,
        user_cart_items |-> IF hasUser THEN Cardinality(CartItems(uc)) ELSE 0,
        session_cart_items |-> sessionItems,
        can_merge |-> hasUser /\ hasSession,
        recommend_merge |-> hasUser /\ hasSession /\ sessionItems > 0]

\* the body ends at line 181 without "return status_info": the call
\* evaluates to None, whatever was computed
DetectReturn(info) == NoReport

\* the cart a lookup returns: one of the matching rows, or None
FirstOf(S) == IF S = {} THEN {NoId} ELSE S

\* routers/cart.py 147-148: the handler answers what the service returned
StatusRead(p) ==
    LET r == req[p]
        userCarts == IF r.uid # NoUser THEN ActiveCartsFor(r.uid, NoSession) ELSE {}
        sessionCarts == IF r.sid # NoSession THEN ActiveCartsFor(NoUser, r.sid) ELSE {}
    IN /\ At(p, "status_read")
       /\ \E uc \in FirstOf(userCarts), sc \in FirstOf(sessionCarts) :
             Set(p, [Finish(r, "ok") EXCEPT
                       !.report = DetectReturn(StatusInfo(r.uid, uc, sc))])
       /\ UNCHANGED <<carts, items, nextItem, product, varStock, now, started, changes, scope>>

StartStatus(p) ==
    \E u \in OwnerUsers \cup {NoUser}, sd \in OwnerSessions \cup {NoSession} :
        Begin(p, [Idle EXCEPT !.op = "status", !.pc = "status_read", !.uid = u, !.sid = sd])

(***************** mark_cart_converted (cart_service.py 657-661) ***********)
MarkWrite(p) ==
    LET r == req[p]
    IN /\ At(p, "mark_write")
       /\ carts' = [carts EXCEPT ![r.cart].status = CONVERTED]
       /\ Set(p, Finish(r, "ok"))
       /\ UNCHANGED <<items, nextItem, product, varStock, now, started, changes, scope>>

\* order placement: the user's cart is resolved and marked converted
StartOrder(p) ==
    \E u \in OwnerUsers :
        Begin(p, [Idle EXCEPT !.op = "order", !.pc = "get_cart", !.uid = u])

(**************** cleanup_expired_carts (cart_service.py 663-682) **********)
\* a sweep that selects by expires_at alone: the variant SweepExpiresExactly
\* is tested against
SweepQueryAnyStatus(p) ==
    LET r == req[p]
    IN /\ At(p, "sweep_query")
       /\ Set(p, [r EXCEPT !.pc = "sweep_write",
                           !.sweep = {c \in CartIds : carts[c].expires_at < now}])
       /\ UNCHANGED <<carts, items, nextItem, product, varStock, now, started, changes, scope>>

SweepQuery(p) ==
    LET r == req[p]
    IN /\ At(p, "sweep_query")
       /\ Set(p, [r EXCEPT !.pc = "sweep_write",
                           !.sweep = {c \in CartIds : carts[c].expires_at < now
                                                      /\ carts[c].status = ACTIVE}])
       /\ UNCHANGED <<carts, items, nextItem, product, varStock, now, started, changes, scope>>

SweepWrite(p) ==
    LET r == req[p]
    IN /\ At(p, "sweep_write")
       /\ carts' = [c \in CartIds |->
                      IF c \in r.sweep THEN [carts[c] EXCEPT !.status = EXPIRED]
                      ELSE carts[c]]
       /\ Set(p, [Finish(r, "ok") EXCEPT !.count = Cardinality(r.sweep)])
       /\ UNCHANGED <<items, nextItem, product, varStock, now, started, changes, scope>>

StartCleanup(p) ==
    Begin(p, [Idle EXCEPT !.op = "cleanup", !.pc = "sweep_query"])

RECURSIVE SumQty(_)
SumQty(S) ==
    IF S = {} THEN 0
    ELSE LET x == CHOOSE y \in S : TRUE IN x.quantity + SumQty(S \ {x})

(*************** handle_guest_user_cart (cart_service.py 684-757) **********)
\* lines 711-735: the extension the cart's value earns, 0 when it earns none
GuestHours(cid, product_ids) ==
    LET valuable == {i \in CartItems(cid) : i.product_id \in Products
                                            /\ i.product_id \in product_ids}
        total_value == product.price
                         * SumQty(valuable)
    IN IF product_ids = {} \/ valuable = {} THEN 0
       ELSE IF total_value > 100000 THEN 168
       ELSE IF Cardinality(valuable) >= 3 THEN 120
       ELSE 96

GuestRead(p) ==
    LET r == req[p]
        hours == GuestHours(r.cart, r.prods)
    IN /\ At(p, "guest_read")
       /\ IF hours = 0
          THEN Set(p, Finish(r, "handled"))
          ELSE Set(p, [r EXCEPT !.pc = "guest_write", !.hours = hours])
       /\ UNCHANGED <<carts, items, nextItem, product, varStock, now, started, changes, scope>>

\* lines 725-738: cart.refresh_expiration(hours); db.commit()
GuestWrite(p) ==
    LET r == req[p]
    IN /\ At(p, "guest_write")
       /\ carts' = [carts EXCEPT ![r.cart].expires_at = ExpirationAt(now, r.hours)]
       /\ Set(p, Finish(r, "handled"))
       /\ UNCHANGED <<items, nextItem, product, varStock, now, started, changes, scope>>

StartGuest(p) ==
    \E s \in OwnerSessions, ids \in SUBSET Products :
        Begin(p, [Idle EXCEPT !.op = "guest", !.pc = "get_cart", !.sid = s, !.prods = ids])

(***************************** environment *********************************)
\* the response is sent; the request is over
Return(p) ==
    /\ req[p].pc = "done"
    /\ Set(p, Idle)
    /\ UNCHANGED <<carts, items, nextItem, product, varStock, now, started, changes, scope>>

\* datetime.utcnow() moves on
Tick ==
    /\ Quiet
    /\ now < MaxTicks * TickHours
    /\ now' = now + TickHours
    /\ UNCHANGED <<carts, items, nextItem, product, varStock, req, started, changes, scope>>

\* the catalog is edited (product_service.update_product / update_stock)
CatalogUpdate ==
    /\ Quiet
    /\ changes < MaxChanges
    /\ changes' = changes + 1
    /\ \/ /\ product' = [product EXCEPT !.is_active = ~product.is_active]
          /\ UNCHANGED varStock
       \/ /\ \E pr \in Prices \ {product.price} : product' = [product EXCEPT !.price = pr]
          /\ UNCHANGED varStock
       \/ /\ \E st \in Stocks \ {product.stock} : product' = [product EXCEPT !.stock = st]
          /\ UNCHANGED varStock
       \/ /\ \E vs \in Stocks \ {varStock} : varStock' = vs
          /\ UNCHANGED product
    /\ UNCHANGED <<carts, items, nextItem, now, req, started, scope>>

(**************************** specification ********************************)
InitDb ==
    /\ carts = <<>>
    /\ items = {}
    /\ nextItem = 1
    /\ product = [is_active |-> TRUE, price |-> 5000, stock |-> 20]
    /\ varStock = 5
    /\ now = 0
    /\ req = [p \in Procs |-> Idle]
    /\ started = 0
    /\ changes = 0

AllVids == {NoId} \cup VariationIds

ItemSteps(p) ==
    \/ StartAdd(p) \/ StartUpdate(p) \/ StartRemove(p) \/ StartClear(p) \/ StartSummary(p)
    \/ GocQuery(p) \/ GocCreate(p) \/ GocRefresh(p) \/ GetCart(p)
    \/ AddRead(p) \/ AddWrite(p) \/ TotalsRead(p) \/ TotalsWrite(p)
    \/ UpdateRead(p) \/ UpdateWrite(p) \/ RemoveRead(p) \/ RemoveDelete(p)
    \/ ClearWrite(p) \/ SummaryRead(p)
    \/ Return(p)

\* Spec: the item handlers on one user's cart, two requests at a time
Init ==
    /\ InitDb
    /\ scope = [conc |-> 2, ops |-> MaxOpsItems, owners |-> UserOwners,
                qtys |-> QtyArgs, vids |-> AllVids,
                carts |-> MaxCarts, items |-> MaxItems, ids |-> MaxItems,
                held |-> FALSE]

Next == \E p \in Procs : ItemSteps(p)

Spec == Init /\ [][Next]_vars

\* CatalogSpec: the same handlers one request at a time, while the catalog
\* is edited between and during the requests
InitCatalog ==
    /\ InitDb
    /\ scope = [conc |-> 1, ops |-> MaxOpsCatalog, owners |-> UserOwners,
                qtys |-> QtyArgs, vids |-> AllVids,
                carts |-> MaxCarts, items |-> MaxItems, ids |-> MaxItems,
                held |-> FALSE]

NextCatalog == (\E p \in Procs : ItemSteps(p)) \/ CatalogUpdate

CatalogSpec == InitCatalog /\ [][NextCatalog]_vars

\* LifeSpec: a user and a guest session, the cart lifecycle (expiration,
\* sweep, merge, convert, order placement), two requests at a time, the clock
InitLife ==
    /\ InitDb
    /\ scope = [conc |-> 2, ops |-> MaxOpsLife, owners |-> UserOwners \cup SessionOwners,
                qtys |-> {5}, vids |-> {NoId},
                carts |-> MaxCarts, items |-> MaxItems, ids |-> MaxItems,
                held |-> FALSE]

NextLife ==
    \/ \E p \in Procs :
         \/ StartGet(p) \/ StartAdd(p) \/ StartClear(p)
         \/ StartMerge(p) \/ StartConvert(p) \/ StartOrder(p)
         \/ StartCleanup(p) \/ StartGuest(p)
         \/ GocQuery(p) \/ GocCreate(p) \/ GocExpire(p) \/ GocRefresh(p) \/ GetCart(p)
         \/ AddRead(p) \/ AddWrite(p) \/ TotalsRead(p) \/ TotalsWrite(p)
         \/ ClearWrite(p)
         \/ MergeQuery(p) \/ ConvertQuery(p) \/ ConvertUser(p)
         \/ XferLoad(p) \/ XferNext(p) \/ XferMark(p)
         \/ MarkWrite(p) \/ SweepQuery(p) \/ SweepWrite(p)
         \/ GuestRead(p) \/ GuestWrite(p)
         \/ Return(p)
    \/ Tick

LifeSpec == InitLife /\ [][NextLife]_vars

(******************* specifications over a populated store *****************)
\* a line of a stored cart: the variation and the quantity of product 1
Line(vid, qty) == [vid |-> vid, qty |-> qty]

\* what earlier, completed requests have left of an owner's cart at time 0:
\* no cart, or a cart with the lines that add_item stored
NoCartYet == [cart |-> FALSE, lines |-> <<>>]
Stored(lines) == [cart |-> TRUE, lines |-> lines]

SessionSeeds ==
    {NoCartYet, Stored(<<>>), Stored(<<Line(NoId, 5), Line(1, 5)>>)}

UserSeeds ==
    {NoCartYet, Stored(<<Line(NoId, 6)>>), Stored(<<Line(1, 5)>>)}

\* the CartItem rows add_item stored for the lines, ids from first on
SeedItems(cid, lines, first) ==
    {[id |-> first + k - 1, cart_id |-> cid, product_id |-> 1,
      variation_id |-> lines[k].vid, quantity |-> lines[k].qty,
      unit_price |-> 5000] : k \in 1..Len(lines)}

RECURSIVE SeedSubtotal(_)
SeedSubtotal(lines) ==
    IF lines = <<>> THEN 0
    ELSE 5000 * Head(lines).qty + SeedSubtotal(Tail(lines))

\* the cart row after the last of those requests: created at time 0, the
\* aggregates as _update_cart_totals left them
SeedCart(uid, sid, lines) ==
    LET subtotal == SeedSubtotal(lines)
    IN [NewCart(uid, sid, ExpirationAt(0, CART_EXPIRATION_HOURS)) EXCEPT
          !.subtotal = subtotal,
          !.tax_amount = TaxOf(subtotal),
          !.total = subtotal + TaxOf(subtotal) + ShippingFor(subtotal)]

InitStore(sessionSeeds, userSeeds) ==
    \E ss \in sessionSeeds, us \in userSeeds :
        LET sc == IF ss.cart THEN <<SeedCart(NoUser, "s1", ss.lines)>> ELSE <<>>
            uc == IF us.cart THEN <<SeedCart(1, NoSession, us.lines)>> ELSE <<>>
        IN /\ carts = sc \o uc
           /\ items = SeedItems(1, ss.lines, 1)
                        \cup SeedItems(Len(sc) + 1, us.lines, Len(ss.lines) + 1)
           /\ nextItem = Len(ss.lines) + Len(us.lines) + 1
    /\ product = [is_active |-> TRUE, price |-> 5000, stock |-> 20]
    /\ varStock = 5
    /\ now = 0
    /\ req = [p \in Procs |-> Idle]
    /\ started = 0
    /\ changes = 0

\* EditSpec: a user and a guest session edit their carts (add, update,
\* remove), two requests at a time, over a populated store
EditQtys == {5, 6, 11}

InitEdit ==
    /\ InitStore({NoCartYet, Stored(<<Line(NoId, 5)>>)},
                 {Stored(<<>>), Stored(<<Line(NoId, 6)>>)})
    /\ scope = [conc |-> 2, ops |-> MaxOpsEdit, owners |-> UserOwners \cup SessionOwners,
                qtys |-> EditQtys, vids |-> {1},
                carts |-> Len(carts) + MaxCarts, items |-> nextItem - 1 + MaxItems,
                ids |-> nextItem, held |-> FALSE]

NextEdit ==
    \E p \in Procs :
        \/ StartAdd(p) \/ StartUpdate(p) \/ StartRemove(p)
        \/ GocQuery(p) \/ GocCreate(p) \/ GocRefresh(p) \/ GetCart(p)
        \/ AddRead(p) \/ AddWrite(p) \/ TotalsRead(p) \/ TotalsWrite(p)
        \/ UpdateRead(p) \/ UpdateWrite(p) \/ RemoveRead(p) \/ RemoveDelete(p)
        \/ Return(p)

EditSpec == InitEdit /\ [][NextEdit]_vars

\* StoreSpec: get_or_create_cart with every combination of owner arguments,
\* merge, convert and the guest handling, one request at a time, over a
\* populated store, while the clock moves on
AnyOwners == {[uid |-> u, sid |-> sd] : u \in Users \cup {NoUser},
                                         sd \in Sessions \cup {NoSession}}

InitStoreSpec ==
    /\ InitStore(SessionSeeds, UserSeeds)
    /\ scope = [conc |-> 1, ops |-> MaxOpsStore, owners |-> AnyOwners,
                qtys |-> {5}, vids |-> {NoId},
                carts |-> Len(carts) + MaxCarts, items |-> nextItem - 1 + MaxItems,
                ids |-> nextItem, held |-> TRUE]

NextStore ==
    \/ \E p \in Procs :
         \/ StartGet(p) \/ StartMerge(p) \/ StartConvert(p) \/ StartGuest(p)
         \/ GocQuery(p) \/ GocCreate(p) \/ GocExpire(p) \/ GocRefresh(p) \/ GetCart(p)
         \/ AddRead(p) \/ AddWrite(p) \/ TotalsRead(p) \/ TotalsWrite(p)
         \/ ClearWrite(p)
         \/ MergeQuery(p) \/ ConvertQuery(p) \/ ConvertUser(p)
         \/ XferLoad(p) \/ XferNext(p) \/ XferMark(p)
         \/ GuestRead(p) \/ GuestWrite(p)
         \/ Return(p)
    \/ Tick

StoreSpec == InitStoreSpec /\ [][NextStore]_vars

\* RaceSpec: the lifecycle operations (lookup, clear, merge, convert, order
\* placement, the guest handling, the sweep) two requests at a time over a
\* store where the guest session has a cart with one item and the user has
\* no cart or an empty one, while the clock moves on
InitRace ==
    /\ InitStore({Stored(<<Line(NoId, 5)>>)}, {NoCartYet, Stored(<<>>)})
    /\ scope = [conc |-> 2, ops |-> MaxOpsRace, owners |-> UserOwners \cup SessionOwners,
                qtys |-> {5}, vids |-> {NoId},
                carts |-> Len(carts) + MaxCarts, items |-> nextItem - 1 + MaxItems,
                ids |-> nextItem, held |-> FALSE]

NextRace ==
    \/ \E p \in Procs :
         \/ StartGet(p) \/ StartClear(p)
         \/ StartMerge(p) \/ StartConvert(p) \/ StartOrder(p)
         \/ StartCleanup(p) \/ StartGuest(p)
         \/ GocQuery(p) \/ GocCreate(p) \/ GocExpire(p) \/ GocRefresh(p) \/ GetCart(p)
         \/ AddRead(p) \/ AddWrite(p) \/ TotalsRead(p) \/ TotalsWrite(p)
         \/ ClearWrite(p)
         \/ MergeQuery(p) \/ ConvertQuery(p) \/ ConvertUser(p)
         \/ XferLoad(p) \/ XferNext(p) \/ XferMark(p)
         \/ MarkWrite(p) \/ SweepQuery(p) \/ SweepWrite(p)
         \/ GuestRead(p) \/ GuestWrite(p)
         \/ Return(p)
    \/ Tick

RaceSpec == InitRace /\ [][NextRace]_vars

\* CheckoutSpec: checkout validation and the cart status report, one
\* request at a time over a populated store, while the catalog is edited
InitCheckout ==
    /\ InitStore({NoCartYet, Stored(<<Line(NoId, 6)>>)},
                 {NoCartYet, Stored(<<>>), Stored(<<Line(NoId, 6), Line(1, 5)>>)})
    /\ scope = [conc |-> 1, ops |-> MaxOpsCheckout, owners |-> UserOwners \cup SessionOwners,
                qtys |-> {5}, vids |-> {NoId},
                carts |-> Len(carts) + MaxCarts, items |-> nextItem - 1 + MaxItems,
                ids |-> nextItem, held |-> TRUE]

NextCheckout ==
    \/ \E p \in Procs :
         \/ StartValidate(p) \/ StartStatus(p)
         \/ GocQuery(p) \/ GocCreate(p) \/ GocRefresh(p) \/ GetCart(p)
         \/ ValidateRead(p) \/ StatusRead(p)
         \/ Return(p)
    \/ CatalogUpdate

CheckoutSpec == InitCheckout /\ [][NextCheckout]_vars

\* the populated store at a given catalog price: the rows add_item and
\* _update_cart_totals leave when the product costs that much
SeedItemsAt(cid, lines, first, price) ==
    {[id |-> first + k - 1, cart_id |-> cid, product_id |-> 1,
      variation_id |-> lines[k].vid, quantity |-> lines[k].qty,
      unit_price |-> price] : k \in 1..Len(lines)}

RECURSIVE SeedQuantity(_)
SeedQuantity(lines) ==
    IF lines = <<>> THEN 0 ELSE Head(lines).qty + SeedQuantity(Tail(lines))

SeedCartAt(uid, sid, lines, price) ==
    LET subtotal == price * SeedQuantity(lines)
    IN [NewCart(uid, sid, ExpirationAt(0, CART_EXPIRATION_HOURS)) EXCEPT
          !.subtotal = subtotal,
          !.tax_amount = TaxOf(subtotal),
          !.total = subtotal + TaxOf(subtotal) + ShippingFor(subtotal)]

InitStoreAt(sessionSeeds, userSeeds, prices) ==
    \E ss \in sessionSeeds, us \in userSeeds, price \in prices :
        LET sc == IF ss.cart THEN <<SeedCartAt(NoUser, "s1", ss.lines, price)>> ELSE <<>>
            uc == IF us.cart THEN <<SeedCartAt(1, NoSession, us.lines, price)>> ELSE <<>>
        IN /\ carts = sc \o uc
           /\ items = SeedItemsAt(1, ss.lines, 1, price)
                        \cup SeedItemsAt(Len(sc) + 1, us.lines, Len(ss.lines) + 1, price)
           /\ nextItem = Len(ss.lines) + Len(us.lines) + 1
           /\ product = [is_active |-> TRUE, price |-> price, stock |-> 20]
    /\ varStock = 5
    /\ now = 0
    /\ req = [p \in Procs |-> Idle]
    /\ started = 0
    /\ changes = 0

\* the catalog prices of the stores SweepSpec starts from
SeedPrices == {5000, 12000}

\* SweepSpec: the sweep of expired carts, the guest handling and the cart
\* lookup, one request at a time over a populated store, while the clock
\* moves on
InitSweep ==
    /\ InitStoreAt({NoCartYet, Stored(<<Line(NoId, 6), Line(1, 5)>>)},
                   {NoCartYet, Stored(<<Line(NoId, 6)>>)}, SeedPrices)
    /\ scope = [conc |-> 1, ops |-> MaxOpsSweep, owners |-> UserOwners \cup SessionOwners,
                qtys |-> {5}, vids |-> {NoId},
                carts |-> Len(carts) + MaxCarts, items |-> nextItem - 1 + MaxItems,
                ids |-> nextItem, held |-> TRUE]

NextSweep ==
    \/ \E p \in Procs :
         \/ StartGet(p) \/ StartGuest(p) \/ StartCleanup(p)
         \/ GocQuery(p) \/ GocCreate(p) \/ GocExpire(p) \/ GocRefresh(p) \/ GetCart(p)
         \/ GuestRead(p) \/ GuestWrite(p)
         \/ SweepQuery(p) \/ SweepWrite(p)
         \/ Return(p)
    \/ Tick

SweepSpec == InitSweep /\ [][NextSweep]_vars

(******************************* properties ********************************)
\* the stored rows of the (product_id, variation_id) pair a request names
PairRows(r) ==
    {i \in items : i.cart_id = r.cart /\ i.product_id = r.pid /\ i.variation_id = r.vid}

\* a request is in add_item for an active product, a variation of it (or
\* none) and a cart, and takes the step that reads and checks
AddChecks(p) ==
    /\ req[p].pc = "add_read"
    /\ req'[p] # req[p]
    /\ req[p].cart # NoId
    /\ req[p].pid \in Products
    /\ product.is_active
    /\ (req[p].vid = NoId \/ req[p].vid \in VariationsOf(req[p].pid))

\* C1: in every reachable state, concurrent get_or_create_cart calls
\* included, an owner key (a user id, or a session id) has at most one cart
\* with status ACTIVE
OneActiveCartPerOwner ==
    \A c \in CartIds, d \in CartIds :
        (c # d /\ carts[c].status = ACTIVE /\ carts[d].status = ACTIVE)
        => ~ \/ (carts[c].user_id # NoUser /\ carts[c].user_id = carts[d].user_id)
             \/ (carts[c].session_id # NoSession
                 /\ carts[c].session_id = carts[d].session_id)

\* C2: no step changes the items or the monetary aggregates of a cart whose
\* status is EXPIRED or CONVERTED, also when the request resolved the cart
\* while it was ACTIVE and another request changed the status since
FrozenCartsUntouched ==
    [][\A c \in CartIds :
          carts[c].status \in {EXPIRED, CONVERTED}
          => /\ {i \in items' : i.cart_id = c} = {i \in items : i.cart_id = c}
             /\ carts'[c].subtotal = carts[c].subtotal
             /\ carts'[c].tax_amount = carts[c].tax_amount
             /\ carts'[c].discount_amount = carts[c].discount_amount
             /\ carts'[c].total = carts[c].total]_vars

\* C3: the owner lookup get_cart, and the session lookup of merge and
\* convert, never hand out an ACTIVE cart whose expires_at is in the past,
\* so that update, remove, clear, merge and the guest handling never act on one
LookupSkipsExpired ==
    [][\A p \in Procs :
          /\ (req[p].pc = "get_cart" /\ req'[p].pc \notin {"get_cart", "done"})
             => ~IsExpired(carts[req'[p].cart], now)
          /\ (req[p].pc \in {"merge_query", "conv_query"}
              /\ req'[p].pc \notin {"merge_query", "conv_query", "done"})
             => ~IsExpired(carts[req'[p].scart], now)]_vars

\* sum of unit_price * quantity over a set of stored items
RECURSIVE SumUnitPrices(_)
SumUnitPrices(S) ==
    IF S = {} THEN 0
    ELSE LET x == CHOOSE y \in S : TRUE
         IN x.unit_price * x.quantity + SumUnitPrices(S \ {x})

\* C4: after every completed item mutation (add, update, remove, clear), in
\* any sequence, the stored subtotal is the sum of unit_price * quantity over
\* the stored items of the cart and the stored tax is subtotal * TAX_RATE
AggregatesMatchItemsAfterMutation ==
    \A p \in Procs :
        (/\ req[p].pc = "done"
         /\ req[p].op \in {"add", "update", "remove", "clear"}
         /\ req[p].res = "ok"
         /\ req[p].cart # NoId)
        => LET c == req[p].cart
           IN /\ carts[c].subtotal = SumUnitPrices(CartItems(c))
              /\ carts[c].tax_amount * 100 = carts[c].subtotal * TAX_RATE_PERCENT

\* C5: a mutation and the recompute that follows it are one atomic unit: no
\* committed state has the items of a cart changed and its stored subtotal,
\* tax and total still those of the previous items
NoStaleTotalsCommitted ==
    \A c \in CartIds : Loaded(c) = ComputeTotals(c)

\* the shipping rule of the specification: nothing for an empty cart or from
\* the free-shipping threshold on, the flat cost otherwise
FlatShipping(subtotal) ==
    IF subtotal = 0 \/ subtotal >= FREE_SHIPPING_THRESHOLD THEN 0 ELSE SHIPPING_COST

\* C6 as stated: the persisted total is subtotal + tax_amount -
\* discount_amount without shipping, and the summary reports shipping
\* separately by the flat rule
PersistedTotalExcludesShipping ==
    /\ \A c \in CartIds :
          carts[c].total
            = carts[c].subtotal + carts[c].tax_amount - carts[c].discount_amount
    /\ \A p \in Procs :
          (req[p].pc = "done" /\ req[p].op = "summary" /\ req[p].res = "ok")
          => req[p].ship = FlatShipping(req[p].tot.subtotal)

\* C6 amended: the persisted total is subtotal + tax_amount + shipping -
\* discount_amount, shipping being the flat rule applied to the subtotal, and
\* the summary's shipping_estimate is that same shipping
PersistedTotalIncludesShipping ==
    /\ \A c \in CartIds :
          carts[c].total
            = carts[c].subtotal + carts[c].tax_amount
              + FlatShipping(carts[c].subtotal) - carts[c].discount_amount
    /\ \A p \in Procs :
          (req[p].pc = "done" /\ req[p].op = "summary" /\ req[p].res = "ok")
          => req[p].ship = FlatShipping(req[p].tot.subtotal)

\* a summary has been returned for a cart below the free-shipping threshold
\* whose recomputed total carries the shipping cost
ShippingChargedInTotal ==
    \E p \in Procs :
        /\ req[p].pc = "done" /\ req[p].op = "summary" /\ req[p].res = "ok"
        /\ req[p].tot.subtotal > 0
        /\ req[p].tot.subtotal < FREE_SHIPPING_THRESHOLD
        /\ req[p].ship = SHIPPING_COST
        /\ carts[req[p].cart].total
             = carts[req[p].cart].subtotal + carts[req[p].cart].tax_amount + SHIPPING_COST

\* C7: every stored CartItem has a quantity between 1 and
\* MAX_QUANTITY_PER_ITEM, whatever integer quantities the operations are given
StoredQuantityInRange ==
    \A i \in items : 1 <= i.quantity /\ i.quantity <= MAX_QUANTITY_PER_ITEM

\* C8: add_item is additive and keyed by (product_id, variation_id): adding n
\* to a pair stored with quantity m leaves it with m + n, and a cart never
\* holds two items of one pair, concurrent add_item calls included
AddIsAdditiveAndKeyed ==
    [][/\ \A i \in items', j \in items' :
            (i.cart_id = j.cart_id /\ i.product_id = j.product_id
             /\ i.variation_id = j.variation_id) => i.id = j.id
       /\ \A p \in Procs :
            (req[p].pc = "add_write" /\ req[p].exist # NoId /\ req'[p].pc = "tot_read")
            => \E i \in items, j \in items' :
                  /\ i.id = req[p].exist
                  /\ j.id = i.id
                  /\ j.quantity = i.quantity + req[p].qty]_vars

\* C9: when add_item would take the quantity of the pair (existing +
\* requested) above the cap, it fails with the quantity-limit error and
\* persists nothing: items and aggregates are as before the call
QuantityLimitPersistsNothing ==
    [][\A p \in Procs :
          (/\ AddChecks(p)
           /\ IF PairRows(req[p]) = {}
              THEN req[p].qty > MAX_QUANTITY_PER_ITEM
              ELSE \A i \in PairRows(req[p]) :
                      i.quantity + req[p].qty > MAX_QUANTITY_PER_ITEM)
          => /\ req'[p].pc = "done"
             /\ req'[p].res = "QuantityLimitExceeded"
             /\ items' = items
             /\ carts' = carts]_vars

\* an add_item has been refused with the quantity-limit error for a pair
\* whose stored quantity, within the cap, plus the requested one exceeds it
QuantityLimitRefused ==
    \E p \in Procs :
        /\ req[p].pc = "done" /\ req[p].op = "add"
        /\ req[p].res = "QuantityLimitExceeded"
        /\ \E i \in PairRows(req[p]) :
              /\ i.quantity <= MAX_QUANTITY_PER_ITEM
              /\ i.quantity + req[p].qty > MAX_QUANTITY_PER_ITEM

\* the stock add_item checks against: the variation's, else the product's
StockOfPair(r) == IF r.vid # NoId THEN varStock ELSE product.stock

\* the quantity stored for the pair of a request (requests one at a time)
StoredQuantity(r) ==
    IF PairRows(r) = {} THEN 0 ELSE (CHOOSE i \in PairRows(r) : TRUE).quantity

\* C10: for an active product and a resulting quantity within the cap,
\* add_item fails with the insufficient-stock error exactly when the
\* resulting quantity is above the available stock, changing no item and no
\* aggregate, and otherwise goes on to store the resulting quantity
StockDecidesAdd ==
    [][\A p \in Procs :
          LET r == req[p]
              resulting == StoredQuantity(r) + r.qty
          IN /\ (AddChecks(p) /\ resulting <= MAX_QUANTITY_PER_ITEM)
                => IF resulting > StockOfPair(r)
                   THEN /\ req'[p].pc = "done"
                        /\ req'[p].res = "InsufficientStock"
                        /\ items' = items
                        /\ carts' = carts
                   ELSE req'[p].pc = "add_write"
             /\ (r.pc = "add_write" /\ r.op = "add" /\ req'[p] # r)
                => /\ req'[p].pc = "tot_read"
                   /\ \E j \in items' :
                         /\ j.cart_id = r.cart /\ j.product_id = r.pid
                         /\ j.variation_id = r.vid
                         /\ j.quantity = resulting]_vars

\* a variation holds exactly its stock in the cart, and adding more of it
\* has been refused with the insufficient-stock error
StockRefusedAboveEqual ==
    \E p \in Procs :
        /\ req[p].pc = "done" /\ req[p].op = "add"
        /\ req[p].res = "InsufficientStock"
        /\ req[p].vid # NoId
        /\ StoredQuantity(req[p]) = StockOfPair(req[p])
        /\ StoredQuantity(req[p]) > 0
        /\ StoredQuantity(req[p]) + req[p].qty <= MAX_QUANTITY_PER_ITEM

\* C11: at the moment add_item or update_item_quantity commits an item, the
\* quantity it stores does not exceed the available stock of that moment
\* (the variation's stock for an item with a variation, else the product's),
\* also when the catalog stock changed between the stock read and the write
CommittedWithinStock ==
    [][\A p \in Procs :
          (req[p].pc \in {"add_write", "upd_write"} /\ req'[p].pc = "tot_read")
          => \A j \in items' \ items :
                j.quantity <= (IF j.variation_id # NoId THEN varStock ELSE product.stock)]_vars

\* the quantity of the pair that ACTIVE carts hold, all carts together
HeldByActiveCarts(pid, vid) ==
    HeldQuantity({i \in items : /\ i.product_id = pid
                                /\ i.variation_id = vid
                                /\ carts[i.cart_id].status = ACTIVE})

\* C12: add_item and update_item_quantity check the stock against the
\* quantity of the request's own cart only and reserve nothing: a request
\* whose own resulting quantity fits the cap and the stock passes the check
\* whatever the other carts hold, and no cart operation changes the stock,
\* so that requests of different carts can together exceed the stock
StockCheckIgnoresOtherCarts ==
    [][/\ product'.stock = product.stock
       /\ varStock' = varStock
       /\ \A p \in Procs :
            /\ (/\ AddChecks(p)
                /\ \A m \in {i.quantity : i \in PairRows(req[p])} \cup {0} :
                      /\ m + req[p].qty <= MAX_QUANTITY_PER_ITEM
                      /\ m + req[p].qty <= StockOfPair(req[p]))
               => req'[p].pc = "add_write"
            /\ (/\ req[p].pc = "upd_read"
                /\ req'[p] # req[p]
                /\ \E i \in items :
                      /\ i.id = req[p].item /\ i.cart_id = req[p].cart
                      /\ req[p].qty <= MAX_QUANTITY_PER_ITEM
                      /\ req[p].qty <= (IF i.variation_id # NoId THEN varStock
                                        ELSE product.stock))
               => req'[p].pc = "upd_write"]_vars

\* two requests of different carts, in flight together, have both committed
\* their item, and the ACTIVE carts now hold more of the variation than its
\* stock
OversoldAcrossCarts ==
    \E p \in Procs, q \in Procs :
        /\ p # q
        /\ req[p].op \in {"add", "update"} /\ req[q].op \in {"add", "update"}
        /\ req[p].pc \in {"tot_read", "tot_write"}
        /\ req[q].pc \in {"tot_read", "tot_write"}
        /\ req[p].cart # req[q].cart
        /\ \E i \in CartItems(req[p].cart), j \in CartItems(req[q].cart) :
              /\ i.variation_id = 1 /\ j.variation_id = 1
              /\ i.quantity <= varStock /\ j.quantity <= varStock
        /\ HeldByActiveCarts(1, 1) > varStock

\* the stored rows with the item id of a request inside the request's cart
OwnRows(r) == {i \in items : i.id = r.item /\ i.cart_id = r.cart}

\* the step of a request leaves every cart and every item as it was
NothingStored == items' = items /\ carts' = carts

\* C13: update_item_quantity sets the quantity to the given value (not added
\* to the old one) under the cap and stock checks of add_item; when the item
\* id is not in the given cart (absent, or in another owner's cart) it fails
\* with the item-not-found error and changes no item of any cart; remove_item
\* fails the same way, and otherwise deletes that item only
UpdateIsAbsoluteAndOwned ==
    [][\A p \in Procs :
          LET r == req[p]
          IN /\ (r.pc = "upd_read" /\ req'[p] # r)
                => IF OwnRows(r) = {}
                   THEN /\ req'[p].pc = "done" /\ req'[p].res = "ItemNotFound"
                        /\ NothingStored
                   ELSE \A i \in OwnRows(r) :
                          IF r.qty > MAX_QUANTITY_PER_ITEM
                          THEN /\ req'[p].pc = "done"
                               /\ req'[p].res = "QuantityLimitExceeded"
                               /\ NothingStored
                          ELSE IF r.qty > (IF i.variation_id # NoId THEN varStock
                                           ELSE product.stock)
                          THEN /\ req'[p].pc = "done"
                               /\ req'[p].res = "InsufficientStock"
                               /\ NothingStored
                          ELSE req'[p].pc = "upd_write"
             /\ (r.pc = "upd_write" /\ req'[p].pc = "tot_read")
                => /\ \E j \in items' : j.id = r.item /\ j.quantity = r.qty
                   /\ {j \in items' : j.id # r.item} = {i \in items : i.id # r.item}
             /\ (r.pc = "rem_read" /\ req'[p] # r)
                => IF OwnRows(r) = {}
                   THEN /\ req'[p].pc = "done" /\ req'[p].res = "ItemNotFound"
                        /\ NothingStored
                   ELSE req'[p].pc = "rem_delete"
             /\ (r.pc = "rem_delete" /\ req'[p] # r)
                => items' = {i \in items : i.id # r.item}]_vars

\* an update has been refused with the item-not-found error for an item that
\* is stored in another owner's cart, and that item is as it was seeded
ForeignItemNotFound ==
    \E p \in Procs :
        /\ req[p].pc = "done" /\ req[p].op = "update"
        /\ req[p].res = "ItemNotFound"
        /\ req[p].cart # NoId
        /\ \E i \in items :
              /\ i.id = req[p].item
              /\ i.cart_id # req[p].cart
              /\ i.quantity # req[p].qty

\* C14: every cart has exactly one owner field set: whatever owner arguments
\* get_or_create_cart is called with (a user id, a session id, both, none),
\* no cart has both user_id and session_id set and no cart has neither
ExactlyOneOwnerField ==
    \A c \in CartIds :
        (carts[c].user_id # NoUser) # (carts[c].session_id # NoSession)

\* two answered get_or_create_cart calls were made for one owner key (the
\* user id when there is one, else the session id)
SameOwnerKey(a, b) ==
    \/ (a.uid # NoUser /\ a.uid = b.uid)
    \/ (a.uid = NoUser /\ b.uid = NoUser /\ a.sid # NoSession /\ a.sid = b.sid)

BothAnswered(p, q) ==
    /\ p # q
    /\ req[p].pc = "done" /\ req[p].op = "get" /\ req[p].res = "ok"
    /\ req[q].pc = "done" /\ req[q].op = "get" /\ req[q].res = "ok"
    /\ SameOwnerKey(req[p], req[q])

\* the ACTIVE carts of the owner key of a request
KeyCarts(r) ==
    {c \in CartIds : /\ carts[c].status = ACTIVE
                     /\ (r.uid # NoUser \/ r.sid # NoSession)
                     /\ IF r.uid # NoUser THEN carts[c].user_id = r.uid
                        ELSE carts[c].session_id = r.sid}

\* C15: two consecutive get_or_create_cart calls for one owner key, the
\* returned carts neither expired nor converted in between, return the same
\* cart id and leave the key with that one cart
RepeatedCallSameCart ==
    \A p \in Procs, q \in Procs :
        (/\ BothAnswered(p, q)
         /\ carts[req[p].cart].status = ACTIVE
         /\ carts[req[q].cart].status = ACTIVE)
        => /\ req[p].cart = req[q].cart
           /\ KeyCarts(req[p]) = {req[p].cart}

\* a user's second call, made after the clock has moved, has returned the
\* cart of the first and refreshed it
SecondCallAnswered ==
    \E p \in Procs, q \in Procs :
        /\ BothAnswered(p, q)
        /\ req[p].uid # NoUser
        /\ req[p].cart = req[q].cart
        /\ now > 0
        /\ carts[req[p].cart].status = ACTIVE
        /\ carts[req[p].cart].expires_at = now + CART_EXPIRATION_HOURS

\* C16: when the owner's ACTIVE cart has expires_at in the past, the next
\* get_or_create_cart sets that cart to EXPIRED and creates and returns a
\* cart with another id, ACTIVE, without items, expiring 72 hours from now;
\* the items of the old cart are neither moved nor deleted
ExpiredCartReplaced ==
    [][\A p \in Procs :
          LET r == req[p]
              n == Len(carts) + 1
          IN /\ (/\ r.op = "get" /\ r.pc = "goc_query" /\ req'[p] # r
                 /\ KeyCarts(r) # {}
                 /\ \A c \in KeyCarts(r) : now > carts[c].expires_at)
                => /\ req'[p].pc = "goc_expire"
                   /\ req'[p].found \in KeyCarts(r)
                   /\ NothingStored
             /\ (r.op = "get" /\ r.pc = "goc_expire" /\ req'[p] # r)
                => /\ req'[p].pc = "goc_create"
                   /\ carts' = [carts EXCEPT ![r.found].status = EXPIRED]
                   /\ items' = items
             /\ (r.op = "get" /\ r.pc = "goc_create" /\ req'[p] # r)
                => /\ req'[p].pc = "done" /\ req'[p].res = "ok"
                   /\ req'[p].cart = n
                   /\ Len(carts') = n
                   /\ \A c \in CartIds : carts'[c] = carts[c]
                   /\ carts'[n].status = ACTIVE
                   /\ carts'[n].expires_at = now + 72
                   /\ carts'[n].user_id = r.uid
                   /\ (r.uid = NoUser => carts'[n].session_id = r.sid)
                   /\ items' = items
                   /\ \A i \in items' : i.cart_id # n]_vars

\* a call has returned a new, empty, ACTIVE cart expiring 72 hours from now
\* while the owner's earlier cart is EXPIRED and still holds its items
ReplacementReturned ==
    \E p \in Procs :
        /\ req[p].pc = "done" /\ req[p].op = "get" /\ req[p].res = "ok"
        /\ req[p].cart # NoId
        /\ carts[req[p].cart].status = ACTIVE
        /\ carts[req[p].cart].expires_at = now + 72
        /\ CartItems(req[p].cart) = {}
        /\ \E c \in CartIds :
              /\ c # req[p].cart
              /\ carts[c].status = EXPIRED
              /\ carts[c].expires_at < now
              /\ IF req[p].uid # NoUser THEN carts[c].user_id = req[p].uid
                 ELSE carts[c].session_id = req[p].sid
              /\ CartItems(c) # {}

\* C17: expiration is sliding: across any sequence of accesses through
\* get_or_create_cart and of value-based extensions by the guest handling, no
\* step moves a cart's expires_at to an earlier time than it had
ExpirationNeverMovesBack ==
    [][\A c \in CartIds : carts'[c].expires_at >= carts[c].expires_at]_vars

EmptyMergeIsNoOp ==
    [][\A p \in Procs :
          (/\ req[p].op = "merge" /\ req[p].pc = "merge_query" /\ req'[p] # req[p]
           /\ \A c \in CartIds :
                 (carts[c].session_id = req[p].sid /\ carts[c].status = ACTIVE)
                 => CartItems(c) = {})
          => /\ req'[p].pc = "done"
             /\ req'[p].res = "nothing_to_merge"
             /\ req'[p].cart = NoId
             /\ carts' = carts
             /\ items' = items]_vars

\* a merge has returned nothing for a session whose ACTIVE cart is empty,
\* and the user, who had no cart, still has none
EmptyMergeAnswered ==
    \E p \in Procs :
        /\ req[p].pc = "done" /\ req[p].op = "merge"
        /\ req[p].res = "nothing_to_merge"
        /\ \E c \in CartIds : /\ carts[c].session_id = req[p].sid
                              /\ carts[c].status = ACTIVE
                              /\ CartItems(c) = {}
        /\ \A c \in CartIds : carts[c].user_id # req[p].uid

\* C20: whether or not the user already has an ACTIVE cart, a convert that
\* finds a non-empty ACTIVE session cart completes, leaves no cart of the
\* session ACTIVE, and answers with the user's ACTIVE cart
ConvertCompletes ==
    \A p \in Procs :
        (req[p].pc = "done" /\ req[p].op = "convert" /\ req[p].res # "CartNotFound")
        => /\ req[p].res = "ok"
           /\ \A c \in CartIds : carts[c].session_id = req[p].sid
                                 => carts[c].status = CONVERTED
           /\ req[p].cart # NoId
           /\ carts[req[p].cart].user_id = req[p].uid
           /\ carts[req[p].cart].status = ACTIVE

\* the first check of add_item that fails for a request, "ok" when none does
FirstFailure(r) ==
    IF ~(r.pid \in Products /\ product.is_active) THEN "ProductUnavailable"
    ELSE IF r.vid # NoId /\ r.vid \notin VariationsOf(r.pid) THEN "VariationNotFound"
    ELSE IF StoredQuantity(r) + r.qty > MAX_QUANTITY_PER_ITEM THEN "QuantityLimitExceeded"
    ELSE IF StoredQuantity(r) + r.qty > StockOfPair(r) THEN "InsufficientStock"
    ELSE "ok"

\* C30: add_item reports the first check that fails, in the order product,
\* variation, quantity cap, stock (a request above both the cap and the
\* stock gets the quantity-limit error), and writes nothing when one fails
AddChecksInOrder ==
    [][\A p \in Procs :
          (/\ req[p].pc = "add_read" /\ req[p].op = "add" /\ req'[p] # req[p]
           /\ req[p].cart # NoId)
          => IF FirstFailure(req[p]) = "ok"
             THEN req'[p].pc = "add_write"
             ELSE /\ req'[p].pc = "done"
                  /\ req'[p].res = FirstFailure(req[p])
                  /\ items' = items
                  /\ carts' = carts]_vars

\* an add_item whose resulting quantity is above the cap and above the stock
\* of its variation has been refused with the quantity-limit error
AboveCapAndStockRefused ==
    \E p \in Procs :
        /\ req[p].pc = "done" /\ req[p].op = "add"
        /\ req[p].res = "QuantityLimitExceeded"
        /\ product.is_active
        /\ req[p].vid \in VariationsOf(req[p].pid)
        /\ StoredQuantity(req[p]) + req[p].qty > MAX_QUANTITY_PER_ITEM
        /\ StoredQuantity(req[p]) + req[p].qty > StockOfPair(req[p])
        /\ StoredQuantity(req[p]) <= StockOfPair(req[p])

\* C28: EXPIRED and CONVERTED are terminal: no step of any operation, in any
\* interleaving, changes the status of a cart that is EXPIRED or CONVERTED
TerminalStatusesStay ==
    [][\A c \in CartIds :
          carts[c].status \in {EXPIRED, CONVERTED}
          => carts'[c].status = carts[c].status]_vars

\* C26: in any interleaving with request traffic, the sweep changes a
\* status only on a cart that, at the moment the status is written, is
\* ACTIVE and has expires_at in the past: it expires no cart whose
\* expiration was extended meanwhile and overwrites no CONVERTED status
SweepWritesOnlyExpiredActive ==
    [][\A p \in Procs :
          (req[p].pc = "sweep_write" /\ req'[p] # req[p])
          => \A c \in CartIds :
                carts'[c].status # carts[c].status
                => /\ carts[c].status = ACTIVE
                   /\ carts[c].expires_at < now]_vars

\* C21: from the moment a merge has read the session cart until it marks
\* it CONVERTED, a step of any other request leaves the session cart's items
\* as they are and writes neither the row nor the items of the user cart
\* the merge works on
MergeIsExclusive ==
    [][\A p \in Procs :
          LET r == req[p]
          IN (/\ r.op = "merge" /\ r.scart # NoId
              /\ r.pc \notin {"idle", "done"}
              /\ req'[p] = r)
             => /\ {i \in items' : i.cart_id = r.scart} = CartItems(r.scart)
                /\ r.cart # NoId
                   => /\ {i \in items' : i.cart_id = r.cart} = CartItems(r.cart)
                      /\ carts'[r.cart] = carts[r.cart]]_vars

\* C29: a session cart's contents go into a user cart at most once. In
\* RaceSpec the user's cart starts without items and only a transfer adds
\* to it, so a user's quantity of a pair never exceeds the quantity the
\* session cart holds of that pair
TransferredAtMostOnce ==
    \A u \in items, g \in items :
        (/\ carts[u.cart_id].user_id # NoUser
         /\ carts[g.cart_id].session_id # NoSession
         /\ u.product_id = g.product_id
         /\ u.variation_id = g.variation_id)
        => u.quantity <= g.quantity

\* C22: validate_cart_for_checkout never raises and never mutates: carts,
\* items and the catalog are after the call as before it; it answers valid
\* exactly when the issue list is empty, and for an empty cart it answers
\* invalid with the single issue that the cart is empty
ValidationIsAdvisory ==
    [][\A p \in Procs :
          (req[p].pc = "val_read" /\ req'[p] # req[p])
          => /\ carts' = carts /\ items' = items
             /\ product' = product /\ varStock' = varStock
             /\ req'[p].pc = "done"
             /\ req'[p].res \in {"validated", "empty_cart"}
             /\ req'[p].valid <=> (req'[p].issues = <<>>)
             /\ CartItems(req[p].cart) = {}
                => /\ ~req'[p].valid
                   /\ req'[p].issues = <<Issue("empty", NoId)>>]_vars

\* the function has answered invalid, with the one issue, for an empty cart,
\* and valid, without issues, for a cart with items
EmptyInvalidAndCleanValid ==
    \E p \in Procs, q \in Procs :
        /\ req[p].pc = "done" /\ req[p].res = "validated"
        /\ CartItems(req[p].cart) = {}
        /\ ~req[p].valid /\ req[p].issues = <<Issue("empty", NoId)>>
        /\ req[q].pc = "done" /\ req[q].res = "validated"
        /\ CartItems(req[q].cart) # {}
        /\ req[q].valid /\ req[q].issues = <<>>

\* the stock an item is validated against
LiveStock(i) == IF i.variation_id # NoId THEN varStock ELSE product.stock

\* C23: validate_cart_for_checkout does not fail fast: its list holds
\* exactly one issue for each item whose product is inactive or whose
\* quantity exceeds the live stock (one, not two, for an item that is both),
\* none for any other item, in the order the items are iterated
EveryProblemItemReported ==
    [][\A p \in Procs :
          (/\ req[p].pc = "val_read" /\ req'[p] # req[p]
           /\ req'[p].res = "validated" /\ CartItems(req[p].cart) # {})
          => LET its == CartItems(req[p].cart)
                 iss == req'[p].issues
                 IssuesOf(i) == {k \in 1..Len(iss) : iss[k].item = i.id}
             IN /\ \A i \in its :
                      IF ~product.is_active
                      THEN /\ Cardinality(IssuesOf(i)) = 1
                           /\ \A k \in IssuesOf(i) : iss[k].kind = "unavailable"
                      ELSE IF i.quantity > LiveStock(i)
                      THEN /\ Cardinality(IssuesOf(i)) = 1
                           /\ \A k \in IssuesOf(i) : iss[k].kind = "stock"
                      ELSE IssuesOf(i) = {}
                /\ \A k \in 1..Len(iss) : \E i \in its : iss[k].item = i.id
                /\ \A k \in 1..Len(iss), l \in 1..Len(iss) :
                      k < l => iss[k].item < iss[l].item]_vars

\* a cart with two items of a product that has become inactive, the first
\* also above the lowered stock, has been answered with two issues
TwoIssuesReported ==
    \E p \in Procs :
        /\ req[p].pc = "done" /\ req[p].res = "validated"
        /\ Cardinality(CartItems(req[p].cart)) = 2
        /\ Len(req[p].issues) = 2
        /\ req[p].issues[1].item < req[p].issues[2].item
        /\ ~product.is_active
        /\ \E i \in CartItems(req[p].cart) : i.quantity > LiveStock(i)

\* C24: detect_user_cart_status answers with a report that states whether
\* the user's cart and the session's cart exist, how many items each holds,
\* and recommends the merge exactly when both exist and the session cart
\* has items
StatusReportReturned ==
    \A p \in Procs :
        (req[p].pc = "done" /\ req[p].op = "status")
        => LET r == req[p]
               userCarts == IF r.uid # NoUser THEN ActiveCartsFor(r.uid, NoSession) ELSE {}
               sessionCarts == IF r.sid # NoSession THEN ActiveCartsFor(NoUser, r.sid)
                               ELSE {}
           IN /\ r.report.returned
              /\ r.report.has_user_cart <=> (userCarts # {})
              /\ r.report.has_session_cart <=> (sessionCarts # {})
              /\ \A c \in userCarts : r.report.user_cart_items = Cardinality(CartItems(c))
              /\ \A c \in sessionCarts :
                    r.report.session_cart_items = Cardinality(CartItems(c))
              /\ r.report.recommend_merge
                   <=> /\ userCarts # {}
                       /\ \E c \in sessionCarts : CartItems(c) # {}

\* C25: cleanup_expired_carts sets every ACTIVE cart whose expires_at is
\* before now to EXPIRED, leaves every other cart and every item row as it
\* is, and returns the number of carts it set; it selects no cart that is
\* already EXPIRED, so a second run with nothing changed sets nothing and
\* returns 0
SweepExpiresExactly ==
    [][\A p \in Procs :
          /\ (req[p].pc = "sweep_query" /\ req'[p] # req[p])
             => /\ req'[p].sweep = {c \in CartIds : /\ carts[c].status = ACTIVE
                                                    /\ carts[c].expires_at < now}
                /\ carts' = carts /\ items' = items
          /\ (req[p].pc = "sweep_write" /\ req'[p] # req[p])
             => /\ Len(carts') = Len(carts)
                /\ \A c \in CartIds :
                      carts'[c] = IF c \in req[p].sweep
                                  THEN [carts[c] EXCEPT !.status = EXPIRED]
                                  ELSE carts[c]
                /\ items' = items
                /\ req'[p].pc = "done"
                /\ req'[p].count = Cardinality(req[p].sweep)
                /\ (req[p].sweep = {}) => (req'[p].count = 0 /\ carts' = carts)]_vars

\* one sweep has returned a positive count and another 0; the cart past its
\* expires_at is EXPIRED and still has its items, and a cart refreshed in
\* time is still ACTIVE
SecondSweepFoundNothing ==
    \E p \in Procs, q \in Procs :
        /\ req[p].pc = "done" /\ req[p].op = "cleanup" /\ req[p].count > 0
        /\ req[q].pc = "done" /\ req[q].op = "cleanup" /\ req[q].count = 0
        /\ \E c \in CartIds : /\ carts[c].status = EXPIRED
                              /\ carts[c].expires_at < now
                              /\ CartItems(c) # {}
        /\ \A c \in CartIds : carts[c].expires_at < now => carts[c].status = EXPIRED

\* the value of a cart: the live price times the quantity, over all items
CartValue(cid) == product.price * SumQty(CartItems(cid))

\* C27: handle_guest_user_cart extends the expiration of a guest cart by
\* its perceived value: 168h for a cart worth more than 100000, else 120h
\* for three or more items matching the product ids, else 96h for one or
\* two, and no change for a cart with no matching item and a value not
\* above the threshold
GuestExtensionByValue ==
    [][\A p \in Procs :
          LET r == req[p]
              matching == {i \in CartItems(r.cart) : i.product_id \in r.prods}
              expected == IF CartValue(r.cart) > 100000 THEN 168
                          ELSE IF Cardinality(matching) >= 3 THEN 120
                          ELSE IF matching # {} THEN 96
                          ELSE 0
          IN /\ (r.pc = "guest_read" /\ req'[p] # r)
                => IF expected = 0
                   THEN req'[p].pc = "done" /\ carts' = carts
                   ELSE req'[p].pc = "guest_write" /\ req'[p].hours = expected
             /\ (r.pc = "guest_write" /\ req'[p] # r)
                => carts'[r.cart].expires_at = now + r.hours]_vars

====
